---- MODULE Spec2Model ----
(***************************************************************************)
(* Notus metadata loader of ospd-openvas (ospd_openvas/notus/metadata.py): *)
(* NotusMetadataHandler reads the CSV files of the Notus metadata          *)
(* directory, checks their SHA-256 checksum against the one recorded in    *)
(* the Redis KB, and writes one 15-field record per advisory row under the *)
(* key nvt:<OID>.                                                          *)
(*                                                                         *)
(* Text is modelled by TLA+ strings.  A CSV file is a sequence of lines;   *)
(* a line is [t, v] where t says what the line starts with ("text" for a   *)
(* licence comment, "link" for a line starting with "link = ", "meta" for  *)
(* a line starting with "{", "csv" for a comma separated line) and v is    *)
(* its content (the literal of a link/meta line, the cells of a csv line). *)
(***************************************************************************)
EXTENDS Naturals, Sequences, FiniteSets, TLC

\* Python's None, as a value of a dict entry or as a return value.
None == "<None>"

\* No exception is pending.
NoExc == "none"

(***************************************************************************)
(* Module constants                                                        *)
(***************************************************************************)
EXPECTED_FIELD_NAMES_LIST ==
    << "OID", "TITLE", "CREATION_DATE", "LAST_MODIFICATION", "SOURCE_PKGS",
       "ADVISORY_ID", "SEVERITY_ORIGIN", "SEVERITY_DATE", "SEVERITY_VECTOR",
       "ADVISORY_XREF", "DESCRIPTION", "INSIGHT", "AFFECTED", "CVE_LIST",
       "BINARY_PACKAGES_FOR_RELEASES", "XREFS", "FILENAME" >>

METADATA_DIRECTORY_NAME == "notus_metadata"

SCRIPT_CATEGORY == "3"
SCRIPT_TIMEOUT == "0"
BIDS == ""
REQUIRED_KEYS == ""
MANDATORY_KEYS == ""
EXCLUDED_KEYS == ""
REQUIRED_UDP_PORTS == ""
REQUIRED_PORTS == ""
DEPENDENCIES == ""

(***************************************************************************)
(* Bounds of the model                                                     *)
(***************************************************************************)
\* Largest number of CSV files in the metadata directory.
MaxFiles == 2
\* Largest number of calls of update_metadata / get_family_driver_linkers.
MaxCalls == 2

(***************************************************************************)
(* Python helpers                                                          *)
(***************************************************************************)
Range(s) == { s[i] : i \in DOMAIN s }

\* bool(value) is False: None or the empty string.
Falsy(value) == value = None \/ value = ""

\* ast.literal_eval on the cell texts the model uses.  kind is the type of
\* the literal (or the exception raised), items what iterating over the
\* value yields (the elements of a list, the characters of a str, the keys
\* of a dict); len() of the value is the number of items.
LiteralEval(text) ==
    CASE text = "['a']"      -> [kind |-> "list", items |-> <<"a">>]
      [] text = "['a', 'b']" -> [kind |-> "list", items |-> <<"a", "b">>]
      [] text = "[]"         -> [kind |-> "list", items |-> << >>]
      [] text = "'ab'"       -> [kind |-> "str",  items |-> <<"a", "b">>]
      [] text = "5"          -> [kind |-> "int",  items |-> << >>]
      [] text = "{'a': 1}"   -> [kind |-> "dict", items |-> <<"a">>]
      [] text = "not-a-list" -> [kind |-> "ValueError", items |-> << >>]
      [] text = "["          -> [kind |-> "SyntaxError", items |-> << >>]

\* The literal raised instead of evaluating.
EvalRaises(lit) == lit.kind \in {"ValueError", "SyntaxError"}

\* The literal has a len() and can be iterated.
Sized(lit) == lit.kind \in {"list", "str", "dict"}

\* sep.join(items)
RECURSIVE Join(_, _)
Join(sep, items) ==
    IF items = << >> THEN ""
    ELSE IF Len(items) = 1 THEN items[1]
    ELSE items[1] \o sep \o Join(sep, Tail(items))

\* [f(x) for x in items] with f = 'URL:' + x
RECURSIVE PrefixAll(_, _)
PrefixAll(prefix, items) ==
    IF items = << >> THEN << >>
    ELSE <<prefix \o items[1]>> \o PrefixAll(prefix, Tail(items))

(***************************************************************************)
(* Dicts.  A dict is the sequence of its (key, value) items in insertion   *)
(* order, which is the order dict.items() iterates in.                     *)
(***************************************************************************)
Keys(d) == { d[i][1] : i \in DOMAIN d }

\* d[key]; the caller checks key \in Keys(d) (a KeyError otherwise).
Get(d, key) == d[CHOOSE i \in DOMAIN d : d[i][1] = key][2]

\* DictUpdate as dict.setdefault per item would have it: the value of a
\* key d already has is kept.
RECURSIVE DictUpdate_KeepFirst(_, _)
DictUpdate_KeepFirst(d, e) ==
    IF e = << >> THEN d
    ELSE LET k == e[1][1]
             v == e[1][2]
             d1 == IF k \in Keys(d) THEN d ELSE Append(d, <<k, v>>)
         IN DictUpdate_KeepFirst(d1, Tail(e))

\* dict.update(e): the value of a key d already has is replaced in place,
\* a new key is appended.
RECURSIVE DictUpdate(_, _)
DictUpdate(d, e) ==
    IF e = << >> THEN d
    ELSE LET k == e[1][1]
             v == e[1][2]
             d1 == IF k \in Keys(d)
                   THEN [i \in DOMAIN d |-> IF d[i][1] = k THEN <<k, v>> ELSE d[i]]
                   ELSE Append(d, <<k, v>>)
         IN DictUpdate(d1, Tail(e))

\* csv.DictReader: the row dict of a line's cells under the field names.
\* A short row leaves the missing fields None (restval); the cells beyond
\* the field names go under the key None as a list, which no code here
\* reads and which is truthy, so they are left out.
DictRow(fieldnames, cells) ==
    [i \in DOMAIN fieldnames |->
        <<fieldnames[i], IF i <= Len(cells) THEN cells[i] ELSE None>>]

(***************************************************************************)
(* NotusMetadataHandler: the checks and the formatting                     *)
(***************************************************************************)
\* _check_field_names_lsc
CheckFieldNamesLsc(field_names_list) ==
    IF ~(EXPECTED_FIELD_NAMES_LIST = field_names_list) THEN FALSE ELSE TRUE

\* _check_advisory_dict over the items from position i on.  The result is
\* [exc, ret]: the exception that leaves the function or NoExc, and the
\* value returned.  ValueError and TypeError are caught and give False;
\* the SyntaxError ast.literal_eval raises for text that is no Python
\* expression is not caught.
RECURSIVE CheckItems(_, _)
CheckItems(items, i) ==
    IF i > Len(items) THEN [exc |-> NoExc, ret |-> TRUE]
    ELSE LET key == items[i][1]
             value == items[i][2]
         IN IF Falsy(value) THEN [exc |-> NoExc, ret |-> FALSE]
            ELSE IF key = "SOURCE_PKGS"
            THEN LET lit == LiteralEval(value)
                 IN CASE lit.kind = "SyntaxError" ->
                           [exc |-> "SyntaxError", ret |-> FALSE]
                      [] lit.kind = "ValueError" ->
                           [exc |-> NoExc, ret |-> FALSE]
                      [] ~EvalRaises(lit) /\ ~Sized(lit) ->
                           [exc |-> NoExc, ret |-> FALSE]
                      [] Sized(lit) /\ Len(lit.items) = 0 ->
                           [exc |-> NoExc, ret |-> FALSE]
                      [] OTHER -> CheckItems(items, i + 1)
            ELSE CheckItems(items, i + 1)

CheckAdvisoryDict(advisory_dict) == CheckItems(advisory_dict, 1)

\* _format_xrefs
FormatXrefs(advisory_xref_string, xrefs_list) ==
    Join(", ", <<"URL:" \o advisory_xref_string>> \o PrefixAll("URL:", xrefs_list))

\* The tags string of upload_lsc_from_csv_reader.
TagsString(advisory_dict, general_metadata_dict) ==
    "severity_origin=" \o Get(advisory_dict, "SEVERITY_ORIGIN")
    \o "|severity_date=" \o Get(advisory_dict, "SEVERITY_DATE")
    \o "|severity_vector=" \o Get(advisory_dict, "SEVERITY_VECTOR")
    \o "|last_modification=" \o Get(advisory_dict, "LAST_MODIFICATION")
    \o "|creation_date=" \o Get(advisory_dict, "CREATION_DATE")
    \o "|summary=" \o Get(advisory_dict, "DESCRIPTION")
    \o "|vuldetect=" \o Get(general_metadata_dict, "VULDETECT")
    \o "|insight=" \o Get(advisory_dict, "INSIGHT")
    \o "|affected=" \o Get(advisory_dict, "AFFECTED")
    \o "|solution=" \o Get(general_metadata_dict, "SOLUTION")
    \o "|solution_type=" \o Get(general_metadata_dict, "SOLUTION_TYPE")
    \o "|qod_type=" \o Get(general_metadata_dict, "QOD_TYPE")

\* The advisory_metadata_list upload_lsc_from_csv_reader builds for a row
\* that passed _check_advisory_dict: [exc, vt].  The literals of CVE_LIST
\* and XREFS are evaluated here, unchecked: text that does not evaluate
\* raises SyntaxError or ValueError, a literal that cannot be iterated
\* raises TypeError, and a general metadata line without one of the four
\* keys raises KeyError.
AdvisoryMetadataList(advisory_dict, general_metadata_dict, family) ==
    LET cve == LiteralEval(Get(advisory_dict, "CVE_LIST"))
        xrefs == LiteralEval(Get(advisory_dict, "XREFS"))
    IN CASE ~({"VULDETECT", "SOLUTION", "SOLUTION_TYPE", "QOD_TYPE"}
                \subseteq Keys(general_metadata_dict)) ->
              [exc |-> "KeyError", vt |-> << >>]
         [] OTHER ->
         CASE EvalRaises(cve) -> [exc |-> cve.kind, vt |-> << >>]
           [] ~EvalRaises(cve) /\ ~Sized(cve) -> [exc |-> "TypeError", vt |-> << >>]
           [] Sized(cve) /\ EvalRaises(xrefs) -> [exc |-> xrefs.kind, vt |-> << >>]
           [] Sized(cve) /\ ~EvalRaises(xrefs) /\ ~Sized(xrefs) ->
                [exc |-> "TypeError", vt |-> << >>]
           [] OTHER ->
                [exc |-> NoExc,
                 vt |-> << METADATA_DIRECTORY_NAME \o "/" \o Get(advisory_dict, "FILENAME"),
                           REQUIRED_KEYS, MANDATORY_KEYS, EXCLUDED_KEYS,
                           REQUIRED_UDP_PORTS, REQUIRED_PORTS, DEPENDENCIES,
                           TagsString(advisory_dict, general_metadata_dict),
                           Join(", ", cve.items),
                           BIDS,
                           FormatXrefs(Get(advisory_dict, "ADVISORY_XREF"), xrefs.items),
                           SCRIPT_CATEGORY, SCRIPT_TIMEOUT, family,
                           Get(advisory_dict, "TITLE") >>]

\* kb_key_string
KbKey(oid) == "nvt:" \o oid

(***************************************************************************)
(* The files of the metadata directory                                     *)
(***************************************************************************)
\* The cells of a data row; the fields the code does not single out keep
\* fixed values.
Cells(oid, title, source_pkgs, cve_list, xrefs) ==
    << oid, title, "2021-01-01", "2021-02-02", source_pkgs, "ADV-2021",
       "NVD", "2021-03-03", "AV:N", "http://x", "desc", "insight", "affected",
       cve_list, "pkgs", xrefs, "lsc.nasl" >>

ValidCells(oid, title) == Cells(oid, title, "['a']", "['a', 'b']", "['a']")

TextLine == [t |-> "text", v |-> << >>]
LinkLine(family, driver) == [t |-> "link", v |-> << <<family, driver>> >>]
MetaLine ==
    [t |-> "meta",
     v |-> << <<"VULDETECT", "vd">>, <<"SOLUTION", "so">>,
              <<"SOLUTION_TYPE", "st">>, <<"QOD_TYPE", "qt">> >>]
CsvLine(cells) == [t |-> "csv", v |-> cells]
HeaderLine == CsvLine(EXPECTED_FIELD_NAMES_LIST)

\* The files a metadata directory is drawn from.
Catalogue ==
    << \* one valid row and one row with an empty TITLE
       [name |-> "a.csv",
        lines |-> << TextLine, LinkLine("A", "1"), MetaLine, HeaderLine,
                     CsvLine(ValidCells("1", "a1")),
                     CsvLine(Cells("2", "", "['a']", "['a']", "['a']")) >>],
       \* another family; OID 1 again
       [name |-> "b.csv",
        lines |-> << TextLine, LinkLine("B", "2"), MetaLine, HeaderLine,
                     CsvLine(ValidCells("1", "b1")),
                     CsvLine(ValidCells("3", "b3")) >>],
       \* family A again with another driver; OID 2 twice, a short row between
       [name |-> "c.csv",
        lines |-> << LinkLine("A", "3"), MetaLine, HeaderLine,
                     CsvLine(ValidCells("2", "c2")),
                     CsvLine(<<"4", "c4">>),
                     CsvLine(ValidCells("2", "c2bis")) >>],
       \* changed after its checksum was recorded
       [name |-> "stale.csv",
        lines |-> << LinkLine("C", "4"), MetaLine, HeaderLine,
                     CsvLine(ValidCells("5", "s5")) >>],
       \* no checksum recorded; a header row of another format version
       [name |-> "unsigned.csv",
        lines |-> << LinkLine("D", "5"), MetaLine,
                     CsvLine(<<"OID", "TITLE">>),
                     CsvLine(<<"6", "u6">>) >>],
       \* no line starting with "link = "
       [name |-> "nolink.csv",
        lines |-> << TextLine, MetaLine, HeaderLine,
                     CsvLine(ValidCells("6", "n6")) >>],
       \* list fields that are empty lists or no lists
       [name |-> "lists.csv",
        lines |-> << LinkLine("E", "7"), MetaLine, HeaderLine,
                     CsvLine(Cells("7", "l7", "['a']", "[]", "['a']")),
                     CsvLine(Cells("8", "l8", "'ab'", "['a']", "[]")),
                     CsvLine(Cells("9", "l9", "[]", "['a']", "['a']")),
                     CsvLine(Cells("9", "l9", "5", "['a']", "['a']")),
                     CsvLine(Cells("9", "l9", "not-a-list", "['a']", "['a']")) >>],
       \* a CVE_LIST that does not evaluate, before a valid row
       [name |-> "cve.csv",
        lines |-> << LinkLine("F", "8"), MetaLine, HeaderLine,
                     CsvLine(Cells("10", "v10", "['a']", "not-a-list", "['a']")),
                     CsvLine(ValidCells("11", "v11")) >>],
       \* a SOURCE_PKGS that is no Python expression, before a valid row
       [name |-> "pkgs.csv",
        lines |-> << LinkLine("G", "9"), MetaLine, HeaderLine,
                     CsvLine(Cells("12", "p12", "[", "['a']", "['a']")),
                     CsvLine(ValidCells("13", "p13")) >>] >>

CatalogueFile(name) == Catalogue[CHOOSE i \in DOMAIN Catalogue : Catalogue[i].name = name]

\* hashlib.sha256 over the bytes of the file, hexdigest(): a function of
\* the content alone, different for different contents.
Sha256Hex(lines) ==
    "sha256:" \o ToString(CHOOSE i \in DOMAIN Catalogue : Catalogue[i].lines = lines)

\* The checksums the feed recorded in the KB: the one of the content for
\* every file but stale.csv (recorded for another content) and
\* unsigned.csv (none recorded).
RecordedChecksums ==
    [name \in { Catalogue[i].name : i \in DOMAIN Catalogue } |->
        CASE name = "stale.csv" -> Sha256Hex(CatalogueFile("a.csv").lines)
          [] name = "unsigned.csv" -> None
          [] OTHER -> Sha256Hex(CatalogueFile(name).lines)]

\* The record an earlier feed load left under a key.
OldVt(title) ==
    << "notus_metadata/old.nasl", "", "", "", "", "", "", "old tags", "old cve",
       "", "old xref", "3", "0", "old family", title >>

\* The KB before the first call: entries of an earlier load under nvt:1
\* (an OID the files carry) and nvt:99 (an OID no file carries).
InitialKb == [k \in {"nvt:1", "nvt:99"} |->
                 IF k = "nvt:1" THEN OldVt("old 1") ELSE OldVt("old 99")]

\* The directory listings of at most n different files, in glob order.
RECURSIVE Listings(_)
Listings(n) ==
    IF n = 0 THEN { << >> }
    ELSE LET shorter == Listings(n - 1)
         IN shorter \cup
            { Append(l, Catalogue[i]) :
                l \in { m \in shorter : Len(m) = n - 1 }, i \in DOMAIN Catalogue }

Distinct(listing) ==
    \A i, j \in DOMAIN listing : i # j => listing[i].name # listing[j].name

(***************************************************************************)
(* State                                                                   *)
(***************************************************************************)
VARIABLES
    settings,       \* openvas_setting: table_driven_lsc, nasl_no_signature_check
    files,          \* the CSV files _get_csv_filepaths finds, in order
    checksums,      \* KB: file name -> recorded checksum or None
    kb,             \* KB: key nvt:<OID> -> the 15 fields stored under it
    kbRejects,      \* keys the KB refuses with OspdOpenvasError
    pc,             \* where the running call is; "idle" between calls
    idx,            \* position of csv_abs_path in the list of files
    family,         \* update_metadata: family of the open file
    general_metadata_dict,    \* update_metadata: general metadata of the open file
    rowPos,         \* line the DictReader reads next
    loaded,         \* upload_lsc_from_csv_reader: rows written
    total,          \* upload_lsc_from_csv_reader: rows seen
    family_driver_linkers,    \* get_family_driver_linkers: the mapping so far
    calls,          \* calls made so far
    last,           \* the last call that ended: [op, exc, ret]
    checked,        \* this call: files is_checksum_correct was called on
    verified,       \* this call: files is_checksum_correct returned True for
    fetched,        \* this call: files whose checksum was read from the KB
    parsed,         \* this call: files parse_family_driver_link was called on
    contrib,        \* this call: files whose link entered the mapping
    writes,         \* this call: the writes the KB accepted, in order
    refused,        \* this call: the writes the KB refused, in order
    reports,        \* this call: [file, loaded, total, ret] per uploaded file
    record,         \* the dict a direct call of _check_advisory_dict is given
    verdict         \* that call's outcome: [called, exc, ret]

vars == << settings, files, checksums, kb, kbRejects, pc, idx, family,
           general_metadata_dict, rowPos, loaded, total, family_driver_linkers,
           calls, last, checked, verified, fetched, parsed, contrib, writes,
           refused, reports, record, verdict >>

input == << settings, files, checksums, kbRejects, record, verdict >>
locals == << family, general_metadata_dict, rowPos, loaded, total >>
history == << checked, verified, fetched, parsed, contrib, writes, refused, reports >>

(***************************************************************************)
(* The KB (NVTICache), an external collaborator                            *)
(***************************************************************************)
\* nvti.get_file_checksum: the recorded checksum or None.
GetFileChecksum(name) == checksums[name]

\* nvti.add_vt_to_cache refuses a vt that does not have 15 entries, and a
\* key of kbRejects, with OspdOpenvasError.
AddVtRefused(vt_id, vt) == Len(vt) # 15 \/ vt_id \in kbRejects

\* nvti.add_vt_to_cache accepted: the key holds vt and nothing else.
AddVtToCache(cache, vt_id, vt) ==
    [k \in DOMAIN cache \cup {vt_id} |-> IF k = vt_id THEN vt ELSE cache[k]]

(***************************************************************************)
(* is_checksum_correct and parse_family_driver_link                        *)
(***************************************************************************)
\* IsChecksumCorrect with a file that has no recorded checksum accepted.
IsChecksumCorrect_MissingPasses(file) ==
    LET no_signature_check == settings.nasl_no_signature_check
    IN IF ~no_signature_check
       THEN LET file_calculated_checksum_string == Sha256Hex(file.lines)
                file_downloaded_checksum_string == GetFileChecksum(file.name)
            IN [ret |-> IF /\ file_downloaded_checksum_string # None
                           /\ ~(file_calculated_checksum_string
                                  = file_downloaded_checksum_string)
                        THEN FALSE ELSE TRUE,
                fetched |-> TRUE]
       ELSE [ret |-> TRUE, fetched |-> FALSE]

\* is_checksum_correct: [ret, fetched], the value returned and whether the
\* recorded checksum was read from the KB.
IsChecksumCorrect(file) ==
    LET no_signature_check == settings.nasl_no_signature_check
    IN IF ~no_signature_check
       THEN LET file_calculated_checksum_string == Sha256Hex(file.lines)
                file_downloaded_checksum_string == GetFileChecksum(file.name)
            IN [ret |-> IF ~(file_calculated_checksum_string
                               = file_downloaded_checksum_string)
                        THEN FALSE ELSE TRUE,
                fetched |-> TRUE]
       ELSE [ret |-> TRUE, fetched |-> FALSE]

\* Position of the first line from position from on that starts as kind
\* says, 0 if there is none.
FirstLine(lines, from, kind) ==
    IF \E i \in from..Len(lines) : lines[i].t = kind
    THEN CHOOSE i \in from..Len(lines) :
            /\ lines[i].t = kind
            /\ \A j \in from..(i - 1) : lines[j].t # kind
    ELSE 0

\* parse_family_driver_link: [exc, ret, pos].  The file is read from its
\* start up to the first line starting with "link = "; pos is the line
\* after it.  Without such a line the local variable link is never bound
\* and reading it raises UnboundLocalError.
ParseFamilyDriverLink(lines) ==
    LET at == FirstLine(lines, 1, "link")
    IN IF at = 0
       THEN [exc |-> "UnboundLocalError", ret |-> None, pos |-> Len(lines) + 1]
       ELSE [exc |-> NoExc, ret |-> lines[at].v, pos |-> at + 1]

\* The loop of update_metadata that looks for the general metadata from
\* the line after the link on: [dict, pos], pos the line after the first
\* line starting with "{", or past the end of the file.
GeneralMetadata(lines, from) ==
    LET at == FirstLine(lines, from, "meta")
    IN IF at = 0
       THEN [dict |-> << >>, pos |-> Len(lines) + 1]
       ELSE [dict |-> lines[at].v, pos |-> at + 1]

\* DictReader(csv_file).fieldnames: the cells of the next line.  For an
\* exhausted file it is None, modelled by the empty list: neither equals
\* the expected field names.
FieldNames(lines, from) ==
    IF from > Len(lines) THEN << >>
    ELSE IF lines[from].t = "csv" THEN lines[from].v ELSE <<lines[from].t>>

(***************************************************************************)
(* Init                                                                    *)
(***************************************************************************)
NoCall == [op |-> "none", exc |-> NoExc, ret |-> None]

InitLocals ==
    /\ pc = "idle"
    /\ idx = 0
    /\ family = None
    /\ general_metadata_dict = << >>
    /\ rowPos = 0
    /\ loaded = 0
    /\ total = 0
    /\ family_driver_linkers = << >>

InitHistory ==
    /\ calls = 0
    /\ last = NoCall
    /\ checked = {}
    /\ verified = {}
    /\ fetched = {}
    /\ parsed = {}
    /\ contrib = {}
    /\ writes = << >>
    /\ refused = << >>
    /\ reports = << >>

NotCalled == [called |-> FALSE, exc |-> NoExc, ret |-> FALSE]

Init ==
    /\ record = << >>
    /\ verdict = NotCalled
    /\ settings \in [table_driven_lsc : BOOLEAN, nasl_no_signature_check : BOOLEAN]
    /\ files \in { l \in Listings(MaxFiles) : Distinct(l) }
    /\ checksums = RecordedChecksums
    /\ kb = InitialKb
    /\ kbRejects \in { {}, {KbKey("1")} }
    /\ InitLocals
    /\ InitHistory

(***************************************************************************)
(* Steps shared by the two calls                                           *)
(***************************************************************************)
\* A call starts: nothing of the previous call's history is left.
StartCall ==
    /\ calls' = calls + 1
    /\ checked' = {}
    /\ verified' = {}
    /\ fetched' = {}
    /\ parsed' = {}
    /\ contrib' = {}
    /\ writes' = << >>
    /\ refused' = << >>
    /\ reports' = << >>

\* The call op ends, returning ret or raising exc; its locals are gone.
EndCall(op, exc, ret) ==
    /\ pc' = "idle"
    /\ last' = [op |-> op, exc |-> exc, ret |-> ret]
    /\ idx' = 0
    /\ family' = None
    /\ general_metadata_dict' = << >>
    /\ rowPos' = 0
    /\ loaded' = 0
    /\ total' = 0
    /\ family_driver_linkers' = << >>

\* "continue" of the loop over the files.
NextFile(loop) ==
    /\ pc' = loop
    /\ idx' = idx + 1

(***************************************************************************)
(* update_metadata                                                         *)
(***************************************************************************)
\* The call and its feature gate: without table_driven_lsc it returns at
\* once, else it lists the files and enters the loop.
UpdateMetadata ==
    /\ pc = "idle"
    /\ calls < MaxCalls
    /\ StartCall
    /\ IF ~settings.table_driven_lsc
       THEN /\ EndCall("update_metadata", NoExc, None)
       ELSE /\ pc' = "u_file"
            /\ idx' = 1
            /\ UNCHANGED << last, locals, family_driver_linkers >>
    /\ UNCHANGED << input, kb >>

\* UCheckFile without the "continue" after a failed checksum check.
UCheckFile_NoSkip ==
    /\ pc = "u_file"
    /\ idx <= Len(files)
    /\ LET check == IsChecksumCorrect(files[idx])
       IN /\ checked' = checked \cup {idx}
          /\ fetched' = IF check.fetched THEN fetched \cup {idx} ELSE fetched
          /\ verified' = IF check.ret THEN verified \cup {idx} ELSE verified
          /\ pc' = "u_open"
          /\ UNCHANGED idx
    /\ UNCHANGED << input, kb, locals, family_driver_linkers, calls, last,
                    parsed, contrib, writes, refused, reports >>

\* The checksum check of the next file; a file that fails it is skipped.
UCheckFile ==
    /\ pc = "u_file"
    /\ idx <= Len(files)
    /\ LET check == IsChecksumCorrect(files[idx])
       IN /\ checked' = checked \cup {idx}
          /\ fetched' = IF check.fetched THEN fetched \cup {idx} ELSE fetched
          /\ IF ~check.ret
             THEN /\ NextFile("u_file")
                  /\ UNCHANGED verified
             ELSE /\ verified' = verified \cup {idx}
                  /\ pc' = "u_open"
                  /\ UNCHANGED idx
    /\ UNCHANGED << input, kb, locals, family_driver_linkers, calls, last,
                    parsed, contrib, writes, refused, reports >>

\* The file is opened: family and driver link, general metadata, and the
\* field names of the CSV part.  A file with other field names is skipped.
\* parse_family_driver_link raising, or popitem() on an empty link
\* (KeyError), ends the call.
UOpenFile ==
    /\ pc = "u_open"
    /\ parsed' = parsed \cup {idx}
    /\ LET lines == files[idx].lines
           link == ParseFamilyDriverLink(lines)
           meta == GeneralMetadata(lines, link.pos)
           fieldnames == FieldNames(lines, meta.pos)
       IN IF link.exc # NoExc
          THEN EndCall("update_metadata", link.exc, None)
          ELSE IF link.ret = << >>
          THEN EndCall("update_metadata", "KeyError", None)
          ELSE IF ~CheckFieldNamesLsc(fieldnames)
          THEN /\ NextFile("u_file")
               /\ UNCHANGED << last, locals, family_driver_linkers >>
          ELSE /\ pc' = "u_row"
               /\ family' = link.ret[Len(link.ret)][1]
               /\ general_metadata_dict' = meta.dict
               /\ rowPos' = meta.pos + 1
               /\ loaded' = 0
               /\ total' = 0
               /\ UNCHANGED << idx, last, family_driver_linkers >>
    /\ UNCHANGED << input, kb, calls, checked, verified, fetched, contrib,
                    writes, refused, reports >>

\* The cells of the line the DictReader reads.
RowCells(line) == IF line.t = "csv" THEN line.v ELSE <<line.t>>

\* upload_lsc_from_csv_reader, one row: counted, checked, turned into the
\* metadata list and written.  A row the check returns False for, and a
\* row the KB refuses, is skipped; an exception of the check or of the
\* formatting ends the call.
URow ==
    /\ pc = "u_row"
    /\ rowPos <= Len(files[idx].lines)
    /\ LET advisory_dict ==
               DictRow(EXPECTED_FIELD_NAMES_LIST, RowCells(files[idx].lines[rowPos]))
           is_correct == CheckAdvisoryDict(advisory_dict)
           made == AdvisoryMetadataList(advisory_dict, general_metadata_dict, family)
           kb_key_string == KbKey(Get(advisory_dict, "OID"))
           entry == [file |-> idx, line |-> rowPos, key |-> kb_key_string]
           Continue(n) ==
               /\ rowPos' = rowPos + 1
               /\ total' = total + 1
               /\ loaded' = loaded + n
               /\ UNCHANGED << pc, idx, last, family, general_metadata_dict,
                               family_driver_linkers >>
       IN CASE is_correct.exc # NoExc ->
                 /\ EndCall("update_metadata", is_correct.exc, None)
                 /\ UNCHANGED << kb, writes, refused >>
            [] is_correct.exc = NoExc /\ ~is_correct.ret ->
                 /\ Continue(0)
                 /\ UNCHANGED << kb, writes, refused >>
            [] is_correct.exc = NoExc /\ is_correct.ret /\ made.exc # NoExc ->
                 /\ EndCall("update_metadata", made.exc, None)
                 /\ UNCHANGED << kb, writes, refused >>
            [] OTHER ->
                 IF AddVtRefused(kb_key_string, made.vt)
                 THEN /\ Continue(0)
                      /\ refused' = Append(refused, entry)
                      /\ UNCHANGED << kb, writes >>
                 ELSE /\ Continue(1)
                      /\ kb' = AddVtToCache(kb, kb_key_string, made.vt)
                      /\ writes' = Append(writes, entry)
                      /\ UNCHANGED refused
    /\ UNCHANGED << input, calls, checked, verified, fetched, parsed, contrib,
                    reports >>

\* upload_lsc_from_csv_reader returns loaded == total once the reader is
\* exhausted; update_metadata goes on with the next file.
UFileDone ==
    /\ pc = "u_row"
    /\ rowPos > Len(files[idx].lines)
    /\ reports' = Append(reports, [file |-> idx, loaded |-> loaded,
                                   total |-> total, ret |-> (loaded = total)])
    /\ NextFile("u_file")
    /\ family' = None
    /\ general_metadata_dict' = << >>
    /\ rowPos' = 0
    /\ loaded' = 0
    /\ total' = 0
    /\ UNCHANGED << input, kb, family_driver_linkers, calls, last, checked,
                    verified, fetched, parsed, contrib, writes, refused >>

\* update_metadata returns after the last file.
UReturn ==
    /\ pc = "u_file"
    /\ idx > Len(files)
    /\ EndCall("update_metadata", NoExc, None)
    /\ UNCHANGED << input, kb, calls, history >>

(***************************************************************************)
(* get_family_driver_linkers                                               *)
(***************************************************************************)
\* The call: the files are listed and the mapping starts empty.
GetFamilyDriverLinkers ==
    /\ pc = "idle"
    /\ calls < MaxCalls
    /\ StartCall
    /\ pc' = "g_file"
    /\ idx' = 1
    /\ family_driver_linkers' = << >>
    /\ UNCHANGED << input, kb, last, locals >>

\* The checksum check of the next file; a file that fails it is skipped.
GCheckFile ==
    /\ pc = "g_file"
    /\ idx <= Len(files)
    /\ LET check == IsChecksumCorrect(files[idx])
       IN /\ checked' = checked \cup {idx}
          /\ fetched' = IF check.fetched THEN fetched \cup {idx} ELSE fetched
          /\ IF ~check.ret
             THEN /\ NextFile("g_file")
                  /\ UNCHANGED verified
             ELSE /\ verified' = verified \cup {idx}
                  /\ pc' = "g_open"
                  /\ UNCHANGED idx
    /\ UNCHANGED << input, kb, locals, family_driver_linkers, calls, last,
                    parsed, contrib, writes, refused, reports >>

\* The file is opened and its link, if it is not empty, updates the
\* mapping; parse_family_driver_link raising ends the call.
GOpenFile ==
    /\ pc = "g_open"
    /\ parsed' = parsed \cup {idx}
    /\ LET dict_entry == ParseFamilyDriverLink(files[idx].lines)
       IN IF dict_entry.exc # NoExc
          THEN /\ EndCall("get_family_driver_linkers", dict_entry.exc, None)
               /\ UNCHANGED contrib
          ELSE /\ NextFile("g_file")
               /\ IF dict_entry.ret # << >>
                  THEN /\ family_driver_linkers' =
                              DictUpdate(family_driver_linkers, dict_entry.ret)
                       /\ contrib' = contrib \cup {idx}
                  ELSE UNCHANGED << family_driver_linkers, contrib >>
               /\ UNCHANGED << last, locals >>
    /\ UNCHANGED << input, kb, calls, checked, verified, fetched, writes,
                    refused, reports >>

\* get_family_driver_linkers returns the mapping after the last file.
GReturn ==
    /\ pc = "g_file"
    /\ idx > Len(files)
    /\ EndCall("get_family_driver_linkers", NoExc, family_driver_linkers)
    /\ UNCHANGED << input, kb, calls, history >>

(***************************************************************************)
(* Specification                                                           *)
(***************************************************************************)
Next ==
    \/ UpdateMetadata
    \/ UCheckFile
    \/ UOpenFile
    \/ URow
    \/ UFileDone
    \/ UReturn
    \/ GetFamilyDriverLinkers
    \/ GCheckFile
    \/ GOpenFile
    \/ GReturn

Spec == Init /\ [][Next]_vars

(***************************************************************************)
(* _check_advisory_dict called on its own                                  *)
(***************************************************************************)
\* d with the value of key replaced.
With(d, key, value) ==
    [i \in DOMAIN d |-> IF d[i][1] = key THEN <<key, value>> ELSE d[i]]

\* The texts a SOURCE_PKGS cell takes.
PkgTexts == { "['a']", "['a', 'b']", "[]", "'ab'", "5", "{'a': 1}", "not-a-list", "[" }

\* The dicts _check_advisory_dict is called with: a row of the DictReader
\* with any SOURCE_PKGS text and one field (SOURCE_PKGS too) populated,
\* empty or missing.
Records ==
    LET base == DictRow(EXPECTED_FIELD_NAMES_LIST, ValidCells("1", "title"))
    IN { With(With(base, "SOURCE_PKGS", s), k, v) :
            s \in PkgTexts,
            k \in Range(EXPECTED_FIELD_NAMES_LIST) \ {"SOURCE_PKGS"},
            v \in {"x", "", None} }
       \cup { With(base, "SOURCE_PKGS", v) : v \in {"", None} }

InitValidator ==
    /\ record \in Records
    /\ verdict = NotCalled
    /\ settings = [table_driven_lsc |-> TRUE, nasl_no_signature_check |-> FALSE]
    /\ files = << >>
    /\ checksums = RecordedChecksums
    /\ kb = InitialKb
    /\ kbRejects = {}
    /\ InitLocals
    /\ InitHistory

\* _check_advisory_dict(record)
CheckAdvisoryDictCall ==
    /\ ~verdict.called
    /\ record # << >>
    /\ LET is_correct == CheckAdvisoryDict(record)
       IN verdict' = [called |-> TRUE, exc |-> is_correct.exc, ret |-> is_correct.ret]
    /\ UNCHANGED << settings, files, checksums, kb, kbRejects, record, pc, idx,
                    locals, family_driver_linkers, calls, last, history >>

NextValidator == CheckAdvisoryDictCall

SpecValidator == InitValidator /\ [][NextValidator]_vars

(***************************************************************************)
(* Vocabulary of the properties                                            *)
(***************************************************************************)
\* The file has a line starting with "link = ".
HasLink(file) == \E l \in DOMAIN file.lines : file.lines[l].t = "link"

\* Family and driver of the file's link line.
LinkOf(file) == file.lines[FirstLine(file.lines, 1, "link")].v[1]

\* The file's checksum is the recorded one, or checksums are not checked.
Passes(file) ==
    \/ settings.nasl_no_signature_check
    \/ Sha256Hex(file.lines) = checksums[file.name]

\* The line after the general metadata, where the CSV part starts.
CsvStart(file) ==
    GeneralMetadata(file.lines, ParseFamilyDriverLink(file.lines).pos).pos

\* The file has a link line and the expected field names.
Uploadable(file) ==
    /\ HasLink(file)
    /\ FieldNames(file.lines, CsvStart(file)) = EXPECTED_FIELD_NAMES_LIST

\* The lines of the file that are data rows.
DataRows(file) == (CsvStart(file) + 1)..Len(file.lines)

\* The row dict of line l of file i.
RowAt(i, l) == DictRow(EXPECTED_FIELD_NAMES_LIST, RowCells(files[i].lines[l]))

\* The text encodes a non-empty list.
EncodesList(text) ==
    /\ ~Falsy(text)
    /\ LiteralEval(text).kind = "list"
    /\ LiteralEval(text).items # << >>

\* No value of the row is empty or missing.
Populated(d) == \A j \in DOMAIN d : ~Falsy(d[j][2])

\* The row is an advisory record as the data model has it.
WellFormed(d) ==
    /\ Populated(d)
    /\ EncodesList(Get(d, "SOURCE_PKGS"))
    /\ EncodesList(Get(d, "CVE_LIST"))
    /\ EncodesList(Get(d, "XREFS"))

\* The writes of this call that come from file i.
WritesOf(i) == { k \in DOMAIN writes : writes[k].file = i }

\* A call of op has ended and no other call has started.
Ended(op) == pc = "idle" /\ last.op = op

\* A dict as a function from its keys.
AsMap(d) == [k \in Keys(d) |-> Get(d, k)]

\* The files whose link belongs to the mapping: those that pass the
\* checksum check and have a link line.
Linking == { i \in DOMAIN files : Passes(files[i]) /\ HasLink(files[i]) }

\* The mapping the links of those files give, a later file's driver
\* replacing an earlier one's for the same family.
ExpectedLinkers ==
    [f \in { LinkOf(files[i])[1] : i \in Linking } |->
        LET i == CHOOSE i \in Linking :
                    /\ LinkOf(files[i])[1] = f
                    /\ \A j \in Linking : LinkOf(files[j])[1] = f => j <= i
        IN LinkOf(files[i])[2]]

\* The well-formed rows of the files that pass the checks, as <<file, line>>.
LoadableRows ==
    { r \in UNION { { <<i, l>> : l \in DataRows(files[i]) } :
                      i \in { j \in DOMAIN files :
                                 Passes(files[j]) /\ Uploadable(files[j]) } } :
        WellFormed(RowAt(r[1], r[2])) }

RowKey(r) == KbKey(Get(RowAt(r[1], r[2]), "OID"))

\* r is processed before q, or is q.
NotAfter(r, q) == r[1] < q[1] \/ (r[1] = q[1] /\ r[2] <= q[2])

\* The record the row is transformed into.
RecordOf(r) ==
    LET file == files[r[1]]
    IN AdvisoryMetadataList(
           RowAt(r[1], r[2]),
           GeneralMetadata(file.lines, ParseFamilyDriverLink(file.lines).pos).dict,
           LinkOf(file)[1]).vt

\* The KB after loading the files: under every key a loadable row carries
\* the record of the last such row, every other key as it was.
ExpectedKb ==
    [k \in DOMAIN InitialKb \cup { RowKey(r) : r \in LoadableRows } |->
        IF \E r \in LoadableRows : RowKey(r) = k
        THEN RecordOf(CHOOSE r \in LoadableRows :
                        /\ RowKey(r) = k
                        /\ \A q \in LoadableRows : RowKey(q) = k => NotAfter(q, r))
        ELSE InitialKb[k]]

(***************************************************************************)
(* Properties                                                              *)
(***************************************************************************)
\* C1: update_metadata with table_driven_lsc set, over files that each have
\* their link line, checks every listed file and returns without raising,
\* whatever the files' checksums, field names and rows are and whatever
\* writes the KB refuses.
C1_IngestNeverRaises ==
    ( /\ Ended("update_metadata")
      /\ settings.table_driven_lsc
      /\ \A i \in DOMAIN files : HasLink(files[i]) )
    => /\ last.exc = NoExc
       /\ checked = DOMAIN files

\* C2: every record written to the KB comes from a row whose values are all
\* non-empty and whose SOURCE_PKGS, CVE_LIST and XREFS each encode a
\* non-empty list.
C2_OnlyWellFormedRowsWritten ==
    \A k \in DOMAIN writes : WellFormed(RowAt(writes[k].file, writes[k].line))

\* C3: within a call, a file is opened, a row of it is written (or offered
\* to the KB), and its link enters the mapping, only after
\* is_checksum_correct returned True for it in that call; a file it
\* returned False for is never opened and contributes nothing.
C3_VerificationGates ==
    /\ verified \subseteq checked
    /\ parsed \subseteq verified
    /\ contrib \subseteq verified
    /\ \A k \in DOMAIN writes : writes[k].file \in verified
    /\ \A k \in DOMAIN refused : refused[k].file \in verified
    /\ pc \in {"u_open", "u_row", "g_open"} => idx \in verified
    /\ \A i \in checked \ verified :
          /\ i \notin parsed
          /\ i \notin contrib
          /\ WritesOf(i) = {}
    /\ (Ended("get_family_driver_linkers") /\ last.exc = NoExc)
          => \A f \in Keys(last.ret) :
                \E i \in verified : HasLink(files[i]) /\ LinkOf(files[i])[1] = f

\* C3, its case: a row was written while another file of the same call had
\* failed the checksum check.
C3_Witness ==
    /\ writes # << >>
    /\ checked \ verified # {}

\* C4: without table_driven_lsc, update_metadata writes nothing and checks
\* no file, and get_family_driver_linkers still returns the mapping of the
\* files that pass the checksum check and have a link line.
C4_FeatureGate ==
    ~settings.table_driven_lsc
    => /\ kb = InitialKb
       /\ Ended("update_metadata")
             => (writes = << >> /\ refused = << >> /\ checked = {} /\ fetched = {})
       /\ Ended("get_family_driver_linkers")
             => (last.exc = NoExc /\ AsMap(last.ret) = ExpectedLinkers)

\* C5: a file without a line starting with "link = " makes neither call
\* raise: the call that opened it ends by returning, no link of it is in
\* the mapping and no row of it is written.
C5_NoLinkTolerated ==
    (pc = "idle" /\ last.op # "none")
    => \A i \in parsed :
          ~HasLink(files[i])
          => /\ last.exc = NoExc
             /\ i \notin contrib
             /\ WritesOf(i) = {}

\* The rows of file i the check passes and the KB takes.
TakenRows(i) ==
    { l \in DataRows(files[i]) :
        /\ CheckAdvisoryDict(RowAt(i, l)).ret
        /\ ~(KbKey(Get(RowAt(i, l), "OID")) \in kbRejects) }

\* The counts reported for file i are those of its rows.
CountsRight(r) ==
    /\ r.total = Cardinality(DataRows(files[r.file]))
    /\ r.loaded = Cardinality(TakenRows(r.file))
    /\ r.loaded = Cardinality(WritesOf(r.file))
    /\ r.loaded <= r.total
    /\ r.ret = (r.loaded = r.total)

\* C6: loaded never exceeds total, and every file that passed the checksum
\* check, the header extraction and the field name check has all its rows
\* processed: when the call has ended it has its counts, total the number
\* of its data rows, loaded the number of rows that passed the check and
\* were accepted by the KB, which is the number of its writes.
C6_EveryRowCounted ==
    /\ loaded <= total
    /\ \A k \in DOMAIN reports : CountsRight(reports[k])
    /\ Ended("update_metadata")
          => \A i \in parsed :
                Uploadable(files[i])
                => \E k \in DOMAIN reports : reports[k].file = i

\* C7: is_checksum_correct returns True for a file exactly if checksums are
\* not checked or the file's SHA-256 digest is the recorded one; a missing
\* recorded checksum gives False and the loop goes on; the recorded
\* checksum is read for the files checked when checksums are checked, and
\* for none when they are not.
C7_ChecksumIff ==
    /\ \A i \in checked :
          /\ i \in verified <=>
                ( \/ settings.nasl_no_signature_check
                  \/ Sha256Hex(files[i].lines) = checksums[files[i].name] )
          /\ ( ~settings.nasl_no_signature_check /\ checksums[files[i].name] = None )
                => (i \notin verified /\ (idx > i \/ pc = "idle"))
    /\ fetched = IF settings.nasl_no_signature_check THEN {} ELSE checked

\* C7, its case: with checksums checked, one file was accepted and one
\* without a recorded checksum was rejected.
C7_Witness ==
    /\ ~settings.nasl_no_signature_check
    /\ verified # {}
    /\ \E i \in checked \ verified : checksums[files[i].name] = None

\* C8: after update_metadata has run once or more over the same files, with
\* the KB refusing nothing, the KB holds under every key of a well-formed
\* row the record of the last such row in processing order, and every
\* other key as before the first run.
C8_LastWriteWins ==
    ( /\ Ended("update_metadata")
      /\ settings.table_driven_lsc
      /\ kbRejects = {} )
    => kb = ExpectedKb

\* C9: get_family_driver_linkers returns, whenever every file that passes
\* the checksum check has a link line, the mapping of those files' links
\* built from the empty mapping, the later file's driver standing for a
\* family two files name; and the call writes nothing to the KB.
C9_LinkersMapping ==
    Ended("get_family_driver_linkers")
    => /\ writes = << >>
       /\ refused = << >>
       /\ (\A i \in DOMAIN files : Passes(files[i]) => HasLink(files[i]))
             => (last.exc = NoExc /\ AsMap(last.ret) = ExpectedLinkers)
       /\ last.exc = NoExc => AsMap(last.ret) = ExpectedLinkers

\* C9, its case: the second call in a row returned a mapping in which a
\* later file's driver replaced an earlier file's for the same family.
C9_Witness ==
    /\ Ended("get_family_driver_linkers")
    /\ calls = 2
    /\ last.exc = NoExc
    /\ \E i, j \in Linking :
          /\ i < j
          /\ LinkOf(files[i])[1] = LinkOf(files[j])[1]
          /\ LinkOf(files[i])[2] # LinkOf(files[j])[2]
          /\ Get(last.ret, LinkOf(files[j])[1]) = LinkOf(files[j])[2]

\* C10: _check_advisory_dict raises nothing; it returns False for a dict
\* with an empty or missing value and for a dict whose SOURCE_PKGS does not
\* evaluate to a non-empty list, and True for a dict with every value
\* populated and SOURCE_PKGS a non-empty list.
C10_ValidatorVerdict ==
    verdict.called
    => /\ verdict.exc = NoExc
       /\ verdict.ret =
             ( /\ Populated(record)
               /\ EncodesList(Get(record, "SOURCE_PKGS")) )

====
